---------------------------- MODULE Spec2Model ----------------------------
(***************************************************************************)
(* A model of "Ego Vehicle/EgoTrajPrediction.py": the two propagation      *)
(* loops (constantAcceleration, constantTurnRate), the model selection in  *)
(* run, and predictionValidator with its module-level cursor               *)
(* VALIDATOR_COUNTER over the reference log ODOM.                          *)
(*                                                                         *)
(* Numbers.  The loop variable t (t = t + 0.1, while t <= T) and the       *)
(* quotient T / dt are IEEE-754 binary64 values and are modelled bit for   *)
(* bit: a magnitude is a natural number of units of 2^-56 held in four     *)
(* limbs of 20 bits (TLC's integers are 32 bits wide), and every sum and   *)
(* quotient is rounded to 53 significant bits, ties to even.  Positions,   *)
(* velocities and covariances of the CA model are exact rationals in       *)
(* fixed-point units (positions 1/200 m, velocities 1/20 m/s,              *)
(* accelerations 1 m/s^2, dt in tenths of a second); their binary64        *)
(* rounding is not modelled.  The CTRV Jacobian is built from sin and cos, *)
(* so a CTRV entry that depends on them is tracked by its class only:      *)
(* "fin" (some finite value) or "nan".                                     *)
(***************************************************************************)
EXTENDS Integers, Sequences, FiniteSets, TLC

(***************************************************************************)
(* Naturals of up to 80 bits: <<l0, l1, l2, l3>>, little-endian, base 2^20 *)
(***************************************************************************)
Base == 2^20

BigOf(n) == <<n % Base, n \div Base, 0, 0>>

BigZero == <<0, 0, 0, 0>>

BigNorm(a) ==
    LET c0 == a[1] \div Base
        c1 == (a[2] + c0) \div Base
        c2 == (a[3] + c1) \div Base
    IN  <<a[1] % Base, (a[2] + c0) % Base, (a[3] + c1) % Base, a[4] + c2>>

BigAdd(a, b) == BigNorm(<<a[1] + b[1], a[2] + b[2], a[3] + b[3], a[4] + b[4]>>)

BigLeq(a, b) ==
    \/ a[4] < b[4]
    \/ a[4] = b[4] /\ a[3] < b[3]
    \/ a[4] = b[4] /\ a[3] = b[3] /\ a[2] < b[2]
    \/ a[4] = b[4] /\ a[3] = b[3] /\ a[2] = b[2] /\ a[1] <= b[1]

\* a - b for b <= a
BigSub(a, b) ==
    LET d0 == a[1] - b[1]
        w0 == IF d0 < 0 THEN 1 ELSE 0
        d1 == a[2] - b[2] - w0
        w1 == IF d1 < 0 THEN 1 ELSE 0
        d2 == a[3] - b[3] - w1
        w2 == IF d2 < 0 THEN 1 ELSE 0
    IN  <<d0 + w0 * Base, d1 + w1 * Base, d2 + w2 * Base, a[4] - b[4] - w2>>

BigDouble(a) == BigAdd(a, a)

BigHalf(a) ==
    <<(a[1] \div 2) + (a[2] % 2) * (Base \div 2),
      (a[2] \div 2) + (a[3] % 2) * (Base \div 2),
      (a[3] \div 2) + (a[4] % 2) * (Base \div 2),
      a[4] \div 2>>

BigOdd(a) == a[1] % 2 = 1

RECURSIVE Bits(_)
Bits(n) == IF n = 0 THEN 0 ELSE 1 + Bits(n \div 2)

BitLen(a) ==
    IF a[4] # 0 THEN 60 + Bits(a[4])
    ELSE IF a[3] # 0 THEN 40 + Bits(a[3])
    ELSE IF a[2] # 0 THEN 20 + Bits(a[2])
    ELSE Bits(a[1])

\* a * 2^k: whole limbs first, then bit by bit
RECURSIVE ShiftLeft(_, _)
ShiftLeft(a, k) ==
    IF k = 0 \/ a = BigZero THEN a
    ELSE IF k >= 20 THEN ShiftLeft(<<0, a[1], a[2], a[3]>>, k - 20)
    ELSE ShiftLeft(BigDouble(a), k - 1)

\* a \div 2^k
RECURSIVE ShiftRight(_, _)
ShiftRight(a, k) ==
    IF k = 0 \/ a = BigZero THEN a
    ELSE IF k >= 20 THEN ShiftRight(<<a[2], a[3], a[4], 0>>, k - 20)
    ELSE ShiftRight(BigHalf(a), k - 1)

(***************************************************************************)
(* binary64                                                                *)
(***************************************************************************)
\* significand width of binary64
Precision == 53

\* the exponent of the unit: a magnitude m stands for m * 2^-56
UnitBits == 56

\* Round a magnitude to Precision significant bits, ties to even.
RoundNearestEven(a) ==
    LET q == BitLen(a) - Precision
    IN  IF q <= 0 THEN a
        ELSE LET low  == ShiftLeft(ShiftRight(a, q), q)
                 rest == BigSub(a, low)
                 half == ShiftLeft(BigOf(1), q - 1)
                 up   == \/ ~BigLeq(rest, half)
                         \/ rest = half /\ BigOdd(ShiftRight(a, q))
             IN  IF up THEN BigAdd(low, ShiftLeft(BigOf(1), q)) ELSE low

\* a + b of two non-negative binary64 values
FAdd(a, b) == RoundNearestEven(BigAdd(a, b))

\* The integer part of a / b: the quotient bits from the highest down.
RECURSIVE DivInt(_, _, _, _, _)
DivInt(r, b, bs, i, q) ==
    LET take == BigLeq(bs, r)
        r2   == IF take THEN BigSub(r, bs) ELSE r
        q2   == IF take THEN BigAdd(BigDouble(q), BigOf(1)) ELSE BigDouble(q)
    IN  IF i = 0 THEN [q |-> q2, r |-> r2]
        ELSE DivInt(r2, b, BigHalf(bs), i - 1, q2)

\* Quotient bits after the binary point until q has Precision bits.
RECURSIVE DivFrac(_, _, _, _)
DivFrac(r, b, q, f) ==
    IF BitLen(q) >= Precision THEN [q |-> q, r |-> r, f |-> f]
    ELSE LET r2   == BigDouble(r)
             take == BigLeq(b, r2)
         IN  DivFrac(IF take THEN BigSub(r2, b) ELSE r2, b,
                     IF take THEN BigAdd(BigDouble(q), BigOf(1)) ELSE BigDouble(q),
                     f + 1)

\* a / b of two positive magnitudes, correctly rounded: the value q / 2^f.
FDiv(a, b) ==
    LET s    == IF BitLen(a) > BitLen(b) THEN BitLen(a) - BitLen(b) ELSE 0
        ip   == DivInt(a, b, ShiftLeft(b, s), s, BigZero)
        fr   == DivFrac(ip.r, b, ip.q, 0)
        r2   == BigDouble(fr.r)
        rbit == BigLeq(b, r2)
        rest == IF rbit THEN BigSub(r2, b) ELSE r2
        up   == rbit /\ (rest # BigZero \/ BigOdd(fr.q))
    IN  [q |-> IF up THEN BigAdd(fr.q, BigOf(1)) ELSE fr.q, f |-> fr.f]

\* int(x) of a non-negative binary64 value q / 2^f
TruncInt(x) == LET n == ShiftRight(x.q, x.f) IN n[1] + n[2] * Base

\* q / 2^f in units of 2^-56
ToUnits(x) == ShiftLeft(x.q, UnitBits - x.f)

\* The binary64 value of a decimal literal n/10, n > 0 (0.1, 0.2, 0.5, 1.0).
Literal(n) == ToUnits(FDiv(BigOf(n), BigOf(10)))

\* The literal 0.1 of "t = t + 0.1".
Tenth == Literal(1)

(***************************************************************************)
(* Bounds and inputs                                                       *)
(***************************************************************************)
\* T ranges over the halves -1/2 .. MaxH/2 (every one an exact binary64).
MaxH == 6

\* rows of the longest reference log
MaxLog == 31

\* calls of predictionValidator in one behaviour
MaxCalls == 3

\* dt in tenths of a second: -0.1, 0, 0.1, 0.2
DtTenths == {-1, 0, 1, 2}

THalves == -1 .. MaxH

\* |T| in units of 2^-56
TUnits(h) == ShiftLeft(BigOf(h), UnitBits - 1)

(***************************************************************************)
(* Values of array entries: an exact number, some finite value, or nan.    *)
(***************************************************************************)
Num(n) == [k |-> "num", v |-> n]

Fin == [k |-> "fin", v |-> 0]

NaN == [k |-> "nan", v |-> 0]

IsZero(a) == a.k = "num" /\ a.v = 0

\* IEEE: nan absorbs everything, also 0 * nan.
AMul(a, b) ==
    IF a.k = "nan" \/ b.k = "nan" THEN NaN
    ELSE IF a.k = "num" /\ b.k = "num" THEN Num(a.v * b.v)
    ELSE IF IsZero(a) \/ IsZero(b) THEN Num(0)
    ELSE Fin

AAdd(a, b) ==
    IF a.k = "nan" \/ b.k = "nan" THEN NaN
    ELSE IF a.k = "num" /\ b.k = "num" THEN Num(a.v + b.v)
    ELSE IF IsZero(a) THEN b
    ELSE IF IsZero(b) THEN a
    ELSE Fin

ASub(a, b) == AAdd(a, AMul(Num(-1), b))

RECURSIVE Dot(_, _, _)
Dot(r, c, k) == IF k = 0 THEN Num(0) ELSE AAdd(Dot(r, c, k - 1), AMul(r[k], c[k]))

\* The array with entries f[1], ..., f[n], every entry computed once, here.
Array(f) == f \o <<>>

\* np.matmul(A, x) for a vector x
MatVec(A, x) == Array([i \in 1 .. Len(A) |-> Dot(A[i], x, Len(x))])

Transpose(A) == Array([i \in 1 .. Len(A[1]) |-> Array([j \in 1 .. Len(A) |-> A[j][i]])])

\* np.matmul(A, B) from A and the transpose of B
MatMulT(A, Bt) ==
    Array([i \in 1 .. Len(A) |->
              Array([j \in 1 .. Len(Bt) |-> Dot(A[i], Bt[j], Len(Bt[j]))])])

\* np.matmul(A, B)
MatMul(A, B) == MatMulT(A, Transpose(B))

MatAdd(A, B) ==
    Array([i \in 1 .. Len(A) |-> Array([j \in 1 .. Len(A[i]) |-> AAdd(A[i][j], B[i][j])])])

\* np.matmul(A, np.matmul(P, A.T)) + Q
NextCovariance(A, P, Q) == MatAdd(MatMul(A, MatMulT(P, A)), Q)

Zeros(n) == Array([i \in 1 .. n |-> Array([j \in 1 .. n |-> Num(0)])])

\* math.sqrt of a perfect square
Sqrt(n) == CHOOSE r \in 0 .. n : r * r = n

Abs(n) == IF n < 0 THEN -n ELSE n

(***************************************************************************)
(* The loop "t = 0; while t <= T: ...; t = t + 0.1"                        *)
(***************************************************************************)
RECURSIVE WhileLoop(_, _, _)
WhileLoop(t, limit, n) ==
    IF BigLeq(t, limit) THEN WhileLoop(FAdd(t, Tenth), limit, n + 1) ELSE n

\* How often the loop body runs for T = h/2.
Iterations(h) == IF h < 0 THEN 0 ELSE WhileLoop(BigZero, TUnits(h), 0)

\* A function with every value computed once, here.
Table(f) == f @@ <<>>

IterationsOf == Table([h \in THalves |-> Iterations(h)])

(***************************************************************************)
(* constantAcceleration                                                    *)
(* State (x, y, vx, vy, ax, ay) in units (1/200, 1/200, 1/20, 1/20, 1, 1); *)
(* with dt = d/10 the matrix A reads, in these units, as below.            *)
(***************************************************************************)
TransitionCA_swapped(d) ==
    << <<Num(1), Num(0), Num(d * d), Num(0), Num(d), Num(0)>>,
       <<Num(0), Num(1), Num(0), Num(d * d), Num(0), Num(d)>>,
       <<Num(0), Num(0), Num(1), Num(0), Num(2 * d), Num(0)>>,
       <<Num(0), Num(0), Num(0), Num(1), Num(0), Num(2 * d)>>,
       <<Num(0), Num(0), Num(0), Num(0), Num(1), Num(0)>>,
       <<Num(0), Num(0), Num(0), Num(0), Num(0), Num(1)>> >>

TransitionCA(d) ==
    << <<Num(1), Num(0), Num(d), Num(0), Num(d * d), Num(0)>>,
       <<Num(0), Num(1), Num(0), Num(d), Num(0), Num(d * d)>>,
       <<Num(0), Num(0), Num(1), Num(0), Num(2 * d), Num(0)>>,
       <<Num(0), Num(0), Num(0), Num(1), Num(0), Num(2 * d)>>,
       <<Num(0), Num(0), Num(0), Num(0), Num(1), Num(0)>>,
       <<Num(0), Num(0), Num(0), Num(0), Num(0), Num(1)>> >>

\* G in the same units; Q = G G' sa^2 is kept in units of sa^2 = 1/100.
NoiseGainCA(d) == <<d * d, d * d, 2 * d, 2 * d, 1, 1>>

ProcessNoiseCA(d) ==
    LET G == NoiseGainCA(d)
    IN  Array([i \in 1 .. 6 |-> Array([j \in 1 .. 6 |-> Num(G[i] * G[j])])])

\* The loop bodies' states: x_new = A x_old, appended, x_old = x_new.  xs is
\* x_0 followed by stateSpacePrediction so far; n bodies run in all.
RECURSIVE PropagateCA(_, _, _)
PropagateCA(A, xs, n) ==
    IF Len(xs) = n + 1 THEN Tail(xs)
    ELSE PropagateCA(A, Append(xs, MatVec(A, xs[Len(xs)])), n)

\* The loop bodies' covariances: P_new = A P_old A' + Q.  Ps is P_0 followed
\* by covarianceTotal so far.
RECURSIVE CovarianceCA(_, _, _, _)
CovarianceCA(A, Q, Ps, n) ==
    IF Len(Ps) = n + 1 THEN Tail(Ps)
    ELSE CovarianceCA(A, Q, Append(Ps, NextCovariance(A, Ps[Len(Ps)], Q)), n)

constantAccelerationStates(d, h, a) ==
    PropagateCA(TransitionCA(d), << Array([i \in 1 .. 6 |-> Num(a[i])]) >>, IterationsOf[h])

CovarianceTotalCA(d, h) ==
    CovarianceCA(TransitionCA(d), ProcessNoiseCA(d), << Zeros(6) >>, IterationsOf[h])

\* covarianceTotal depends on dt and T alone.
CovarianceTotalCAOf == Table([d \in DtTenths, h \in THalves |-> CovarianceTotalCA(d, h)])

constantAccelerationCovariance(d, h) == CovarianceTotalCAOf[d, h]

\* constantAcceleration(xPos, yPos, xVel, yVel, xAcc, yAcc) with self.dt = d/10, self.T = h/2
constantAcceleration(d, h, a) ==
    [states |-> constantAccelerationStates(d, h, a),
     covariance |-> constantAccelerationCovariance(d, h)]

(***************************************************************************)
(* constantTurnRate                                                        *)
(* State (x, y, yaw, vel, yawRate); yaw in 1/10000 rad, yawRate in         *)
(* 1/1000 rad/s, so A[2][4] = dt reads d.  The six Jacobian entries are    *)
(* built from sin, cos and the quotients by yawRate: numpy's float64       *)
(* division by zero gives inf or nan with a warning, no exception, and     *)
(* every such entry is then nan (inf * 0, or nan).                         *)
(***************************************************************************)
JacobianEntry(x_old) ==
    IF x_old[3].k = "nan" \/ x_old[4].k = "nan" \/ x_old[5].k = "nan" THEN NaN
    ELSE IF IsZero(x_old[5]) THEN NaN
    ELSE Fin

TransitionCTRV(d, x_old) ==
    LET J == JacobianEntry(x_old)
    IN  << <<Num(1), Num(0), J, J, J>>,
           <<Num(0), Num(1), J, J, J>>,
           <<Num(0), Num(0), Num(1), Num(0), Num(d)>>,
           <<Num(0), Num(0), Num(0), Num(1), Num(0)>>,
           <<Num(0), Num(0), Num(0), Num(0), Num(1)>> >>

\* Q = diag(sGPS^2, sGPS^2, sCourse^2, sVelocity^2, sYaw^2): positive multiples of powers of dt
ProcessNoiseCTRV(d) ==
    Array([i \in 1 .. 5 |-> Array([j \in 1 .. 5 |-> IF i = j /\ d # 0 THEN Fin ELSE Num(0)])])

\* The loop bodies' states, A linearized anew from x_old in every body.
RECURSIVE PropagateCTRV(_, _, _)
PropagateCTRV(d, xs, n) ==
    IF Len(xs) = n + 1 THEN Tail(xs)
    ELSE PropagateCTRV(d, Append(xs, MatVec(TransitionCTRV(d, xs[Len(xs)]), xs[Len(xs)])), n)

\* The loop bodies' covariances; xs is x_0 followed by the states, so the
\* k-th body linearizes at xs[k].
RECURSIVE CovarianceCTRV(_, _, _, _)
CovarianceCTRV(d, xs, Ps, n) ==
    IF Len(Ps) = n + 1 THEN Tail(Ps)
    ELSE CovarianceCTRV(d, xs,
             Append(Ps, NextCovariance(TransitionCTRV(d, xs[Len(Ps)]), Ps[Len(Ps)],
                                       ProcessNoiseCTRV(d))), n)

constantTurnRateStates(d, h, a) ==
    PropagateCTRV(d, << Array([i \in 1 .. 5 |-> Num(a[i])]) >>, IterationsOf[h])

constantTurnRateCovariance(d, h, a) ==
    CovarianceCTRV(d, << Array([i \in 1 .. 5 |-> Num(a[i])]) >> \o constantTurnRateStates(d, h, a),
                   << Zeros(5) >>, IterationsOf[h])

\* constantTurnRate(xPos, yPos, yaw, vel, yawRate)
constantTurnRate(d, h, a) ==
    [states |-> constantTurnRateStates(d, h, a),
     covariance |-> constantTurnRateCovariance(d, h, a)]

(***************************************************************************)
(* predictionValidator                                                     *)
(***************************************************************************)
\* int(self.T / self.dt) for dt # 0: the binary64 quotient, truncated to zero.
NumPredictions(d, h) ==
    IF h = 0 THEN 0
    ELSE LET q == TruncInt(FDiv(TUnits(Abs(h)), Literal(Abs(d))))
         IN  IF (h < 0) # (d < 0) THEN -q ELSE q

NumPredictionsOf == Table([d \in DtTenths \ {0}, h \in THalves |-> NumPredictions(d, h)])

\* seq[a:b] of Python for a >= 0: b < 0 counts from the end, both ends are clipped.
PySlice(seq, a, b) ==
    LET n  == Len(seq)
        lo == IF a > n THEN n ELSE a
        hi == IF b < 0 THEN (IF b + n < 0 THEN 0 ELSE b + n) ELSE IF b > n THEN n ELSE b
    IN  IF hi > lo THEN SubSeq(seq, lo + 1, hi) ELSE <<>>

\* The square of the Euclidean distance of a predicted (x, y) and a reference row.
Dist2(p, o) ==
    LET dx == ASub(p[1], Num(o[1]))
        dy == ASub(p[2], Num(o[2]))
    IN  AAdd(AMul(dx, dx), AMul(dy, dy))

\* numpy broadcasts (n, 2) - (m, 2) when n = m, n = 1 or m = 1.
Broadcasts(n, m) == n = m \/ n = 1 \/ m = 1

\* np.linalg.norm(predicted_states - odometry_states, axis = 1), every norm kept
\* as its radicand
RowErrors(pred, odo) ==
    LET n == Len(pred)
        m == Len(odo)
    IN  IF n = m THEN Array([i \in 1 .. n |-> Dist2(pred[i], odo[i])])
        ELSE IF m = 1 THEN Array([i \in 1 .. n |-> Dist2(pred[i], odo[1])])
        ELSE Array([i \in 1 .. m |-> Dist2(pred[1], odo[i])])

\* A metric: sum(sqrt(sq[i])) / n.  numpy divides by n = 0 to nan or inf with a
\* warning.  bound is FALSE for a name that holds no value.
Unbound == [bound |-> FALSE, sq |-> <<>>, n |-> 0]

\* What the local name RMSE holds when predictionValidator is entered: nothing,
\* whatever an earlier call computed (RMSE is not among the globals).
RMSEOnEntry_global(previous) == previous

RMSEOnEntry(previous) == Unbound

NoValidation ==
    [called |-> FALSE, cursor |-> 0, sliced |-> FALSE, rowsPred |-> 0, rowsRef |-> 0,
     caught |-> "none", computed |-> FALSE, raised |-> "none", printed |-> Unbound,
     counter |-> 0]

\* The exception the try block raises and the handler catches.
Caught(n, m) ==
    IF n = 0 THEN "IndexError" ELSE IF ~Broadcasts(n, m) THEN "ValueError" ELSE "none"

\* The local RMSE when the try block is left.
Metric(sts, odometry_states, num_predictions, previous) ==
    IF Caught(Len(sts), Len(odometry_states)) = "none"
    THEN [bound |-> TRUE, sq |-> RowErrors(sts, odometry_states), n |-> num_predictions]
    ELSE RMSEOnEntry(previous)

\* The try block, the handler, the increment and print(RMSE).
Report(n, m, counter, RMSE) ==
    [called |-> TRUE, cursor |-> counter, sliced |-> TRUE, rowsPred |-> n, rowsRef |-> m,
     caught |-> Caught(n, m), computed |-> Caught(n, m) = "none",
     raised |-> IF RMSE.bound THEN "none" ELSE "UnboundLocalError",
     printed |-> RMSE, counter |-> counter + 1]

Validate(sts, odometry_states, num_predictions, counter, previous) ==
    Report(Len(sts), Len(odometry_states), counter,
           Metric(sts, odometry_states, num_predictions, previous))

\* predictionValidator(states) with VALIDATOR_COUNTER = counter; previous is the
\* metric the last successful call computed.  counter is the cursor afterwards.
predictionValidator(sts, d, h, log, counter, previous) ==
    IF d = 0
    THEN [NoValidation EXCEPT !.called = TRUE, !.cursor = counter,
                              !.raised = "ZeroDivisionError", !.counter = counter]
    ELSE Validate(sts, PySlice(log, counter, counter + NumPredictionsOf[d, h]),
                  NumPredictionsOf[d, h], counter, previous)

(***************************************************************************)
(* run, visualize                                                          *)
(***************************************************************************)
\* 0.01 rad/s in thousandths
YawRateThreshold == 10

UseCA_signed(yawRate) == yawRate < YawRateThreshold

\* abs(yawRate) < 0.01
UseCA(yawRate) == Abs(yawRate) < YawRateThreshold

\* The propagation run calls for a sample, and its arguments.
SelectModel(msg) ==
    IF UseCA(msg.yawRate)
    THEN [fn |-> "constantAcceleration", args |-> <<msg.x, msg.y, msg.vx, msg.vy, 0, 0>>]
    ELSE [fn |-> "constantTurnRate",
          args |-> <<msg.x, msg.y, msg.yaw, Sqrt(msg.vx * msg.vx + msg.vy * msg.vy),
                     msg.yawRate>>]

\* the points of the marker visualize publishes
MarkerPoints(sts) == Array([i \in 1 .. Len(sts) |-> <<sts[i][1], sts[i][2]>>])

NoMarker == [sent |-> FALSE, points |-> <<>>]

(***************************************************************************)
(* Inputs                                                                  *)
(***************************************************************************)
\* Odometry(): every field zero
Odometry == [x |-> 0, y |-> 0, vx |-> 0, vy |-> 0, yaw |-> 0, yawRate |-> 0]

\* Samples ROSCallback receives (x, y in 1/200 m; vx, vy in 1/20 m/s; yaw in
\* 1/10000 rad, the yaw tf computes from the orientation; yawRate in 1/1000 rad/s).
Samples ==
    { [x |-> 0,   y |-> 0, vx |-> 200, vy |-> 0,  yaw |-> 0,    yawRate |-> 0],
      [x |-> 200, y |-> 0, vx |-> 200, vy |-> 0,  yaw |-> 0,    yawRate |-> 9],
      [x |-> 0,   y |-> 0, vx |-> 60,  vy |-> 80, yaw |-> 9273, yawRate |-> -9],
      [x |-> 0,   y |-> 0, vx |-> 60,  vy |-> 80, yaw |-> 9273, yawRate |-> 10],
      [x |-> 0,   y |-> 0, vx |-> 200, vy |-> 0,  yaw |-> 0,    yawRate |-> -20] }

\* A reference log of n rows: the positions 1 m, 2 m, ... along the x axis.
ReferenceLog(n) == Array([i \in 1 .. n |-> <<200 * i, 0>>])

LogLengths == {0, 1, MaxLog}

\* Arguments of direct calls of constantAcceleration
ArgsCA ==
    { <<0, 0, 200, 0, 0, 0>>, <<0, 0, 60, 80, 0, 0>>,
      <<200, -400, 0, 0, 1, -2>>, <<0, 0, 200, 0, 3, 0>> }

\* Arguments of direct calls of constantTurnRate
ArgsCTRV ==
    { <<0, 0, 0, 200, 0>>, <<0, 0, 0, 0, 0>>,
      <<0, 0, 9273, 100, 10>>, <<0, 0, 0, 200, -20>> }

(***************************************************************************)
(* The state                                                               *)
(***************************************************************************)
VARIABLES
    dt,                 \* self.dt, in tenths
    T,                  \* self.T, in halves
    last_odom_msg,      \* self.last_odom_msg
    ODOM,               \* the reference log
    VALIDATOR_COUNTER,  \* the cursor into ODOM
    lastOp,             \* the operation that ran last
    modelCall,          \* the last call of a propagation function
    states,             \* the states it returned
    covariance,         \* the covariances it returned to a direct caller
    validation,         \* what the last call of predictionValidator did
    published,          \* the marker the last visualize published
    lastMetric,         \* the metric computed last by any call so far
    calls               \* calls of predictionValidator so far

vars ==
    <<dt, T, last_odom_msg, ODOM, VALIDATOR_COUNTER, lastOp, modelCall, states,
      covariance, validation, published, lastMetric, calls>>

NoCall == [fn |-> "none", args |-> <<>>]

\* __init__(dt, T): no check, any value is kept.
Constructor(d, h) ==
    /\ dt = d
    /\ T = h
    /\ last_odom_msg = Odometry

Init ==
    /\ \E d \in DtTenths, h \in THalves : Constructor(d, h)
    /\ \E n \in LogLengths : ODOM = ReferenceLog(n)
    /\ VALIDATOR_COUNTER = 0
    /\ lastOp = "new"
    /\ modelCall = NoCall
    /\ states = <<>>
    /\ covariance = <<>>
    /\ validation = NoValidation
    /\ published = NoMarker
    /\ lastMetric = Unbound
    /\ calls = 0

\* ROSCallback(odom) keeps the sample; the record of the last prediction, which
\* was made from the sample before, is cleared.
ROSCallback(odom) ==
    /\ last_odom_msg' = odom
    /\ lastOp' = "ROSCallback"
    /\ modelCall' = NoCall
    /\ states' = <<>>
    /\ covariance' = <<>>
    /\ validation' = NoValidation
    /\ published' = NoMarker
    /\ UNCHANGED <<dt, T, ODOM, VALIDATOR_COUNTER, lastMetric, calls>>

\* The states of the propagation run selects.
RunStates(d, h, call) ==
    IF call.fn = "constantAcceleration"
    THEN constantAccelerationStates(d, h, call.args)
    ELSE constantTurnRateStates(d, h, call.args)

RunStatesOf ==
    Table([d \in DtTenths, h \in THalves, msg \in Samples \cup {Odometry} |->
              RunStates(d, h, SelectModel(msg))])

\* The globals and the record of the call after predictionValidator did v.
Validated(v) ==
    /\ validation' = v
    /\ VALIDATOR_COUNTER' = v.counter
    /\ lastMetric' = IF v.computed THEN v.printed ELSE lastMetric
    /\ calls' = calls + 1

\* The marker after visualize(states, covariance, pub).
Visualized(sts) == published' = [sent |-> TRUE, points |-> MarkerPoints(sts)]

\* run after the propagation returned sts: validate, then visualize.
ValidateAndVisualize(sts, v) ==
    /\ states' = sts
    /\ Validated(v)
    /\ IF v.raised = "none" THEN Visualized(sts) ELSE published' = NoMarker

\* run(pub): select, propagate, validate and, unless the validator raised,
\* visualize.  The covariance goes to visualize, which does not read it.
Run ==
    /\ calls < MaxCalls
    /\ modelCall' = SelectModel(last_odom_msg)
    /\ ValidateAndVisualize(
           RunStatesOf[dt, T, last_odom_msg],
           predictionValidator(RunStatesOf[dt, T, last_odom_msg], dt, T, ODOM,
                               VALIDATOR_COUNTER, lastMetric))
    /\ covariance' = <<>>
    /\ lastOp' = "run"
    /\ UNCHANGED <<dt, T, last_odom_msg, ODOM>>

\* predictionValidator(states) called again on the last prediction
CallPredictionValidator ==
    /\ calls < MaxCalls
    /\ lastOp \in {"run", "predictionValidator", "visualize"}
    /\ Validated(predictionValidator(states, dt, T, ODOM, VALIDATOR_COUNTER, lastMetric))
    /\ lastOp' = "predictionValidator"
    /\ published' = NoMarker
    /\ UNCHANGED <<dt, T, last_odom_msg, ODOM, modelCall, states, covariance>>

\* visualize(states, covariance, pub) called on the last prediction
CallVisualize ==
    /\ lastOp \in {"run", "predictionValidator"}
    /\ Visualized(states)
    /\ lastOp' = "visualize"
    /\ validation' = NoValidation
    /\ UNCHANGED <<dt, T, last_odom_msg, ODOM, VALIDATOR_COUNTER, modelCall, states,
                   covariance, lastMetric, calls>>

Next ==
    \/ \E odom \in Samples : ROSCallback(odom)
    \/ Run
    \/ CallPredictionValidator
    \/ CallVisualize

Spec == Init /\ [][Next]_vars

(***************************************************************************)
(* The propagation functions called on their own                           *)
(***************************************************************************)
constantAccelerationOf ==
    Table([d \in DtTenths, h \in THalves, a \in ArgsCA |-> constantAcceleration(d, h, a)])

constantTurnRateOf ==
    Table([d \in DtTenths, h \in THalves, a \in ArgsCTRV |-> constantTurnRate(d, h, a)])

CallConstantAcceleration(a) ==
    /\ modelCall' = [fn |-> "constantAcceleration", args |-> a]
    /\ states' = constantAccelerationOf[dt, T, a].states
    /\ covariance' = constantAccelerationOf[dt, T, a].covariance
    /\ lastOp' = "constantAcceleration"
    /\ UNCHANGED <<dt, T, last_odom_msg, ODOM, VALIDATOR_COUNTER, validation, published,
                   lastMetric, calls>>

CallConstantTurnRate(a) ==
    /\ modelCall' = [fn |-> "constantTurnRate", args |-> a]
    /\ states' = constantTurnRateOf[dt, T, a].states
    /\ covariance' = constantTurnRateOf[dt, T, a].covariance
    /\ lastOp' = "constantTurnRate"
    /\ UNCHANGED <<dt, T, last_odom_msg, ODOM, VALIDATOR_COUNTER, validation, published,
                   lastMetric, calls>>

InitModels == Init /\ ODOM = <<>>

NextModels ==
    \/ \E a \in ArgsCA : CallConstantAcceleration(a)
    \/ \E a \in ArgsCTRV : CallConstantTurnRate(a)

SpecModels == InitModels /\ [][NextModels]_vars

(***************************************************************************)
(* Properties                                                              *)
(***************************************************************************)
Propagated == lastOp \in {"constantAcceleration", "constantTurnRate"}

Configured == dt > 0 /\ T > 0

\* C1: for dt > 0 and T > 0 both propagation functions return floor(T / 0.1) + 1
\* states and as many covariances; T / 0.1 is 5 times T counted in halves.
ClaimC1 ==
    (Propagated /\ Configured) =>
        /\ Len(states) = 5 * T + 1
        /\ Len(covariance) = 5 * T + 1

\* C2: after k calls of predictionValidator, each of which reached its end or
\* raised, VALIDATOR_COUNTER is k.
ClaimC2 == VALIDATOR_COUNTER = calls

\* C3: with dt > 0 and T > 0, a call of predictionValidator whose reference slice
\* has fewer rows than the prediction raises nothing and computes no metric, and
\* the run that made the call goes on to publish the marker.
ClaimC3 ==
    (Configured /\ validation.sliced /\ validation.rowsRef < validation.rowsPred) =>
        /\ validation.raised = "none"
        /\ ~validation.computed
        /\ lastOp = "run" => published.sent

\* The metric of the predicted rows against the rows of ODOM from the cursor on.
OwnMetric(n) ==
    [bound |-> TRUE,
     sq |-> Array([i \in 1 .. n |-> Dist2(states[i], ODOM[validation.cursor + i])]),
     n |-> n]

\* C4: with dt > 0 and T > 0, when ODOM holds at least N rows from the cursor on,
\* N the number of predicted rows, the call compares the N predicted rows with the
\* rows [cursor, cursor + N) and reports the mean of the N distances.
ClaimC4 ==
    (Configured /\ validation.called /\ Len(states) > 0
        /\ Len(ODOM) - validation.cursor >= Len(states)) =>
        /\ validation.computed
        /\ validation.rowsRef = Len(states)
        /\ validation.printed = OwnMetric(Len(states))

\* The metric a call that left its try block normally computes from its own
\* arguments and its own cursor.
ComputedByCall ==
    [bound |-> TRUE,
     sq |-> RowErrors(states, PySlice(ODOM, validation.cursor,
                                      validation.cursor + NumPredictionsOf[dt, T])),
     n |-> NumPredictionsOf[dt, T]]

\* C5: a call of predictionValidator whose metric computation does not complete
\* reports no metric, in particular none an earlier call computed; a call whose
\* computation completes reports the metric it computed itself.
TheoremC5 ==
    validation.called =>
        IF validation.computed
        THEN validation.printed = ComputedByCall
        ELSE ~validation.printed.bound

\* C5: a call fails after an earlier call computed a metric.
WitnessC5 ==
    /\ validation.sliced
    /\ ~validation.computed
    /\ lastMetric.bound
    /\ validation.raised = "UnboundLocalError"

\* C6: no operation runs on an object with dt <= 0 or T <= 0, the constructor
\* having rejected these.
ClaimC6 == lastOp \in {"run", "predictionValidator", "visualize"} => Configured

NoNaNVector(x) == \A i \in 1 .. Len(x) : x[i].k # "nan"

NoNaNMatrix(P) == \A i \in 1 .. Len(P) : NoNaNVector(P[i])

\* C7: with dt > 0 and T > 0, constantTurnRate called with yawRate = 0 reports an
\* error, so that it returns nothing with a non-finite entry.
ClaimC7 ==
    (Configured /\ lastOp = "constantTurnRate" /\ modelCall.args[5] = 0) =>
        /\ \A k \in 1 .. Len(states) : NoNaNVector(states[k])
        /\ \A k \in 1 .. Len(covariance) : NoNaNMatrix(covariance[k])

ZeroAcceleration ==
    /\ lastOp = "constantAcceleration"
    /\ modelCall.args[5] = 0
    /\ modelCall.args[6] = 0

\* The scenario dt = 0.1, T = 3, start (x = 0, y = 0, vx = 10, vy = 0)
ScenarioC8 == ZeroAcceleration /\ dt = 1 /\ T = 6 /\ modelCall.args = <<0, 0, 200, 0, 0, 0>>

DiagonalIsNumber(P) == \A i \in 1 .. Len(P) : P[i][i].k # "nan"

DiagonalIsExact(P) == \A i \in 1 .. Len(P) : P[i][i].k = "num"

\* 40000 / sa^2 times the trace of a covariance of the constant-acceleration model
TraceCA(P) ==
    P[1][1].v + P[2][2].v + 100 * (P[3][3].v + P[4][4].v) + 40000 * (P[5][5].v + P[6][6].v)

\* trace(R) >= trace(P) where the model decides it: false with a nan on a diagonal,
\* the comparison of the traces where both are exact, true otherwise.
TraceLeq(P, R) ==
    /\ DiagonalIsNumber(P)
    /\ DiagonalIsNumber(R)
    /\ (Len(P) = 6 /\ DiagonalIsExact(P) /\ DiagonalIsExact(R)) => TraceCA(P) <= TraceCA(R)

\* C9: for both models, dt > 0 and T > 0, the trace of the covariance is
\* non-decreasing along the returned sequence.
ClaimC9 ==
    (Configured /\ Propagated) =>
        \A k \in 1 .. Len(covariance) - 1 : TraceLeq(covariance[k], covariance[k + 1])

\* C9, the constant-acceleration model with dt >= 0 alone: the trace is
\* non-decreasing.
TraceNonDecreasingCA ==
    (lastOp = "constantAcceleration" /\ dt >= 0) =>
        \A k \in 1 .. Len(covariance) - 1 :
            TraceCA(covariance[k]) <= TraceCA(covariance[k + 1])

\* The yaw rate constantTurnRate divides by at step k: that of the state the step
\* starts from.
Divisor(k) == IF k = 1 THEN Num(modelCall.args[5]) ELSE states[k - 1][5]

\* C10: run calls constantAcceleration with accelerations (0, 0) exactly when
\* |yawRate| < 0.01 and otherwise constantTurnRate with the speed
\* sqrt(vx^2 + vy^2) and the same yaw rate; every step of a constantTurnRate that
\* run entered divides by that yaw rate, which is not 0.
TheoremC10 ==
    lastOp = "run" =>
        LET msg == last_odom_msg
        IN  /\ (-10 < msg.yawRate /\ msg.yawRate < 10) =>
                  modelCall = [fn |-> "constantAcceleration",
                               args |-> <<msg.x, msg.y, msg.vx, msg.vy, 0, 0>>]
            /\ (msg.yawRate <= -10 \/ msg.yawRate >= 10) =>
                  /\ modelCall.fn = "constantTurnRate"
                  /\ modelCall.args[1] = msg.x
                  /\ modelCall.args[2] = msg.y
                  /\ modelCall.args[3] = msg.yaw
                  /\ modelCall.args[4] * modelCall.args[4] = msg.vx * msg.vx + msg.vy * msg.vy
                  /\ modelCall.args[5] = msg.yawRate
            /\ modelCall.fn = "constantTurnRate" =>
                  \A k \in 1 .. Len(states) :
                      Divisor(k) = Num(msg.yawRate) /\ msg.yawRate # 0

\* C10: a run entered constantTurnRate, which took more than one step.
WitnessC10 ==
    /\ lastOp = "run"
    /\ modelCall.fn = "constantTurnRate"
    /\ Len(states) > 1
    /\ published.sent
=============================================================================
